---- MODULE Spec2Model ----
(***************************************************************************)
(* Realtime transcript synchronisation of the BunnyChat client.            *)
(*                                                                         *)
(* The module models the four views that keep a message transcript         *)
(* (Home direct chat, GroupChat, AnonymousChat, ChatWindow), the request   *)
(* gateway they call (history, send, mark-as-read), the backend's message  *)
(* log, and the SocketService singleton that owns the push transport and   *)
(* the listener registry.                                                  *)
(*                                                                         *)
(* One behaviour follows one view (variable "view", fixed by Init); the    *)
(* views keep independent React state, so their transcripts never          *)
(* interact.  view = "channel" follows SocketService with two callbacks     *)
(* registered by an arbitrary caller; view = "lobby" follows the listeners *)
(* Home and the room-creation modal register on it; view = "api" follows   *)
(* one gateway request through the response interceptor.                   *)
(***************************************************************************)
EXTENDS Integers, Sequences, FiniteSets, TLC

\* ------------------------------------------------------------------ bounds
\* largest value Date.now() takes in a behaviour (milliseconds, from 1)
MaxClock == 2
\* messages the backend stores in a behaviour
MaxServer == 1
\* entries a transcript holds in a behaviour
MaxLen == 3
\* gateway sends awaiting their response
MaxSends == 1
\* history loads awaiting their response
MaxLoads == 2
\* transport instances io() creates in a behaviour
MaxTransports == 2
\* times one callback is attached to one transport
MaxAttach == 2
\* times one gateway request is put on the wire
MaxIssued == 3

\* ------------------------------------------------------- fixed vocabulary
\* conversations: friend ids, group ids or room ids
Convs == {"A", "B"}
\* no conversation selected / component not mounted
None == "none"
\* the logged-in user's id (user?.id)
Me == "me"
\* an event that carries no clientId
NoCid == 0
TranscriptViews == {"home", "group", "anon", "window"}
\* views whose handler reconciles by clientId and deduplicates by id
ReconcilingViews == {"home", "group", "anon"}
\* views that load a history through the request gateway
LoadingViews == {"home", "group", "window"}
\* text typed into the message box, as sequences of characters
Inputs == {<<>>, <<" ">>, <<"h">>, <<" ", "h", " ">>}

VARIABLES
    view,        \* which component the behaviour follows
    active,      \* selectedFriend?.id / group.id / roomId / friend.id, or None
    messages,    \* the component's messages state (the transcript)
    isLoading,   \* isLoadingMessages / isLoading
    loads,       \* history requests in flight
    sends,       \* gateway sends and channel emissions in flight
    serverMsgs,  \* the backend's message log, in creation order
    now,         \* the value Date.now() returns
    toast,       \* user-visible notification raised by the last step
    console,     \* console output of the last step
    token,       \* localStorage holds an accessToken
    socket,      \* SocketService.socket: index into transports, 0 for null
    transports,  \* every transport io() has created
    listeners,   \* SocketService.listeners: set of <<event, callback>>
    invoked,     \* callback invocations caused by the last delivered event
    mounted,     \* Home is mounted and its mount effect has run
    api          \* the gateway request in hand and the rest of localStorage

vars == <<view, active, messages, isLoading, loads, sends, serverMsgs, now,
          toast, console, token, socket, transports, listeners, invoked, mounted,
          api>>

viewVars == <<active, messages, isLoading, loads, sends, serverMsgs, now, toast, console>>

channelVars == <<token, socket, transports, listeners, invoked, mounted, api>>

\* ------------------------------------------------------------ pure helpers
\* `temp_${clientId}`: the reserved prefix keeps the id apart from server ids
TempId(clientId) ==
    <<"temp", clientId>>

\* an id assigned by the backend
ServerId(n) ==
    <<"srv", n>>

\* Date.now().toString() used as _id by ChatWindow (no prefix)
LocalId(t) ==
    <<"local", t>>

IsSpace(ch) ==
    ch = " "

RECURSIVE TrimStart(_)
TrimStart(s) ==
    IF s # <<>> /\ IsSpace(Head(s)) THEN TrimStart(Tail(s)) ELSE s

RECURSIVE TrimEnd(_)
TrimEnd(s) ==
    IF s # <<>> /\ IsSpace(s[Len(s)]) THEN TrimEnd(SubSeq(s, 1, Len(s) - 1)) ELSE s

\* a trim that strips leading whitespace only
TrimStartOnly(s) ==
    TrimStart(s)

\* String.prototype.trim
Trim(s) ==
    TrimEnd(TrimStart(s))

\* Array.prototype.findIndex on the id; 0 stands for -1
FindIndex(prev, id) ==
    IF \E i \in 1..Len(prev) : prev[i].id = id
        THEN CHOOSE i \in 1..Len(prev) :
                 /\ prev[i].id = id
                 /\ \A j \in 1..(i - 1) : prev[j].id # id
        ELSE 0

\* Array.prototype.some on the id
SomeId(prev, id) ==
    \E i \in 1..Len(prev) : prev[i].id = id

RECURSIVE FilterOut(_, _)
\* prev.filter(m => m.id !== id)
FilterOut(prev, id) ==
    IF prev = <<>> THEN <<>>
    ELSE IF Head(prev).id = id THEN FilterOut(Tail(prev), id)
         ELSE <<Head(prev)>> \o FilterOut(Tail(prev), id)

\* number of entries with the given id
CountId(prev, id) ==
    Cardinality({i \in 1..Len(prev) : prev[i].id = id})

\* remove the element at index i of a sequence
RemoveAt(s, i) ==
    SubSeq(s, 1, i - 1) \o SubSeq(s, i + 1, Len(s))

\* ------------------------------------------------------- backend messages
\* a stored message: id, conversation, whether this user sent it, and the
\* clientId the sender passed (NoCid for a peer's message)
senderId(m) ==
    IF m.self THEN Me ELSE m.conv

recipientId(m) ==
    IF m.self THEN m.conv ELSE Me

\* the transcript entry a view builds from a delivered event or history row
Confirmed(m) ==
    [id |-> ServerId(m.id), conv |-> m.conv, content |-> m.content,
     createdAt |-> <<"server", m.id>>]

\* the entry handleSendMessage appends before any response
Optimistic(conv, content, clientId, t) ==
    [id |-> TempId(clientId), conv |-> conv, content |-> content,
     createdAt |-> <<"client", t>>]

RECURSIVE HistoryRows(_, _)
\* the rows of one conversation among the first messages of the log
HistoryRows(log, conv) ==
    IF log = <<>> THEN <<>>
    ELSE IF Head(log).conv = conv
         THEN <<Confirmed(Head(log))>> \o HistoryRows(Tail(log), conv)
         ELSE HistoryRows(Tail(log), conv)

\* GET history answered from the log as it was after `upto` messages
getHistory(conv, upto) ==
    HistoryRows(SubSeq(serverMsgs, 1, upto), conv)

\* ---------------------------------------------------------- event handlers
\* Home: the conversation a direct message belongs to, seen from this user
targetId(data) ==
    IF senderId(data) = Me THEN recipientId(data) ELSE senderId(data)

\* an updater that drops the optimistic entry and appends the confirmed
\* one at the end instead of replacing in place
ReconcileByMoving(prev, data) ==
    LET tempIndex == FindIndex(prev, TempId(data.cid))
    IN  IF data.cid # NoCid /\ tempIndex # 0
            THEN Append(RemoveAt(prev, tempIndex), Confirmed(data))
        ELSE IF SomeId(prev, ServerId(data.id)) THEN prev
        ELSE Append(prev, Confirmed(data))

\* the setMessages updater shared by Home, GroupChat and AnonymousChat:
\* 1. replace the optimistic entry of the event's clientId in place,
\* 2. else ignore an id that is already present, 3. else append
ReconcileOrAppend(prev, data) ==
    LET tempIndex == FindIndex(prev, TempId(data.cid))
    IN  IF data.cid # NoCid /\ tempIndex # 0
            THEN [prev EXCEPT ![tempIndex] = Confirmed(data)]
        ELSE IF SomeId(prev, ServerId(data.id)) THEN prev
        ELSE Append(prev, Confirmed(data))

\* the listener without its conversation check
HomeReceiveMessageUnguarded(selectedFriend, prev, data) ==
    ReconcileOrAppend(prev, data)

\* Home 'receive-message' listener
HomeReceiveMessage(selectedFriend, prev, data) ==
    IF selectedFriend = targetId(data) THEN ReconcileOrAppend(prev, data) ELSE prev

\* GroupChat 'group-message' listener
GroupMessageHandler(group, prev, data) ==
    IF data.conv = group THEN ReconcileOrAppend(prev, data) ELSE prev

\* AnonymousChat 'receive-anonymous-message' listener
AnonymousMessageHandler(roomId, prev, data) ==
    IF data.conv = roomId THEN ReconcileOrAppend(prev, data) ELSE prev

\* ChatWindow 'receive-message' listener: appends whatever the friend sent
ChatWindowReceiveMessage(friend, prev, data) ==
    IF senderId(data) = friend THEN Append(prev, Confirmed(data)) ELSE prev

\* the transcript after the view's listener has handled one event
onRemoteEvent(v, act, prev, data) ==
    CASE v = "home"   -> HomeReceiveMessage(act, prev, data)
      [] v = "group"  -> GroupMessageHandler(act, prev, data)
      [] v = "anon"   -> AnonymousMessageHandler(act, prev, data)
      [] v = "window" -> ChatWindowReceiveMessage(act, prev, data)
      [] OTHER        -> prev

\* the conversation an event is tagged with, as the view's guard reads it
EventConv(v, data) ==
    IF v = "window" THEN senderId(data)
    ELSE IF v = "home" THEN targetId(data)
    ELSE data.conv

\* ------------------------------------------------------- socket service
Events == {"message"}

Callbacks == {"cb1", "cb2"}

\* the subscriptions of the arbitrary caller
CallerPairs == Events \X Callbacks

\* the six listeners Home's mount effect registers
MountPairs ==
    {<<"friend-request-received", "onRequest">>,
     <<"friend-request-accepted", "onAccepted">>,
     <<"friend-online", "onOnline">>,
     <<"friend-offline", "onOffline">>,
     <<"new-anonymous-room", "onNewRoom">>,
     <<"anonymous-room-updated", "onRoomUpdate">>}

\* the one-shot listener of Home.handleJoinAnonymousRoom
JoinPair == <<"joined-anonymous-room", "onJoined">>

\* the one-shot listeners of CreateAnonymousRoomModal.handleCreateRoom
RoomCreatedPair == <<"room-created", "onRoomCreated">>

ErrorPair == <<"error", "onCreateError">>

\* every listener a view registers through on()
ViewPairs == MountPairs \cup {JoinPair, RoomCreatedPair, ErrorPair}

\* everything the registry can hold
Pairs == CallerPairs \cup ViewPairs

\* this.socket?.connected
IsConnected ==
    socket # 0 /\ transports[socket].state = "connected"

\* the behaviour follows SocketService itself; a behaviour that follows a
\* view takes the service's connection state as an input of each emit.
\* The lobby follows connect, handshake and disconnect; network drops and
\* logout are followed where the service is followed on its own.
ChannelInScope ==
    view \in {"channel", "lobby"}

NoInvocation ==
    [cb \in Callbacks |-> 0]

\* step output of an operation that raises nothing
Quiet ==
    toast' = "none" /\ console' = "none"

\* ------------------------------------------------------ history loading
\* loadHistory / loadMessages up to the await: raise the loading flag and
\* put the GET in flight (the request names the conversation, nothing else)
StartLoad(conv) ==
    /\ isLoading' = TRUE
    /\ loads' = Append(loads, [conv |-> conv, reqLen |-> Len(serverMsgs),
                               phase |-> "history"])

\* Home: setSelectedFriend(friend or null) and the effects that follow it
SelectFriend(c) ==
    /\ view = "home"
    /\ c \in Convs \cup {None}
    /\ c # active
    /\ active' = c
    /\ IF c # None
         THEN /\ Len(loads) < MaxLoads
              /\ StartLoad(c)
              /\ UNCHANGED messages
         ELSE /\ messages' = <<>>
              /\ UNCHANGED <<isLoading, loads>>
    /\ Quiet
    /\ UNCHANGED <<view, sends, serverMsgs, now>>
    /\ UNCHANGED channelVars

\* GroupChat / AnonymousChat / ChatWindow are mounted with fresh state
Mount(c) ==
    /\ view \in {"group", "anon", "window"}
    /\ active = None
    /\ c \in Convs
    /\ active' = c
    /\ messages' = <<>>
    /\ IF view \in LoadingViews
         THEN /\ Len(loads) < MaxLoads
              /\ StartLoad(c)
         ELSE UNCHANGED <<isLoading, loads>>
    /\ Quiet
    /\ UNCHANGED <<view, sends, serverMsgs, now>>
    /\ UNCHANGED channelVars

\* the mounted component is re-rendered with another group / room / friend
\* prop: the [id] effect re-subscribes and, where there is one, reloads;
\* the messages state is kept
ChangeConversation(c) ==
    /\ view \in {"group", "anon", "window"}
    /\ active # None
    /\ c \in Convs
    /\ c # active
    /\ active' = c
    /\ IF view \in LoadingViews
         THEN /\ Len(loads) < MaxLoads
              /\ StartLoad(c)
         ELSE UNCHANGED <<isLoading, loads>>
    /\ Quiet
    /\ UNCHANGED <<view, messages, sends, serverMsgs, now>>
    /\ UNCHANGED channelVars

\* a request whose component is gone: the backend may still act on it, the
\* response reaches no state
Detached(p) ==
    [p EXCEPT !.kind = "emit"]

\* onClose: the component is unmounted and its state discarded; responses
\* of its requests no longer reach any state
Unmount ==
    /\ view \in {"group", "anon", "window"}
    /\ active # None
    /\ active' = None
    /\ messages' = <<>>
    /\ isLoading' = FALSE
    /\ loads' = <<>>
    /\ sends' = [i \in 1..Len(SelectSeq(sends, LAMBDA p : ~p.accepted)) |->
                    Detached(SelectSeq(sends, LAMBDA p : ~p.accepted)[i])]
    /\ Quiet
    /\ UNCHANGED <<view, serverMsgs, now>>
    /\ UNCHANGED channelVars

\* the finally block of a load, or the await of markAsRead before it
AfterHistory(i) ==
    IF view \in {"home", "window"}
        THEN /\ loads' = [loads EXCEPT ![i].phase = "markRead"]
             /\ UNCHANGED isLoading
        ELSE /\ loads' = RemoveAt(loads, i)
             /\ isLoading' = FALSE

\* the GET resolves: setMessages(history), whatever is selected by now
HistoryResolved(i) ==
    /\ i \in 1..Len(loads)
    /\ loads[i].phase = "history"
    /\ \E upto \in loads[i].reqLen..Len(serverMsgs) :
           messages' = getHistory(loads[i].conv, upto)
    /\ AfterHistory(i)
    /\ Quiet
    /\ UNCHANGED <<view, active, sends, serverMsgs, now>>
    /\ UNCHANGED channelVars

\* toast raised by the catch block of the view's load
LoadFailureToast(v) ==
    CASE v = "group"  -> "Failed to load messages"
      [] v = "window" -> "Failed to load chat history"
      [] OTHER        -> "none"

\* the GET rejects: catch logs (and toasts outside Home), finally clears
\* the flag; the messages state is not touched
HistoryFailed(i) ==
    /\ i \in 1..Len(loads)
    /\ loads[i].phase = "history"
    /\ loads' = RemoveAt(loads, i)
    /\ isLoading' = FALSE
    /\ console' = "error"
    /\ toast' = LoadFailureToast(view)
    /\ UNCHANGED <<view, active, messages, sends, serverMsgs, now>>
    /\ UNCHANGED channelVars

\* the PATCH mark-as-read awaited after setMessages(history) settles
MarkReadSettled(i, ok) ==
    /\ i \in 1..Len(loads)
    /\ loads[i].phase = "markRead"
    /\ loads' = RemoveAt(loads, i)
    /\ isLoading' = FALSE
    /\ console' = IF ok THEN "none" ELSE "error"
    /\ toast' = IF ok THEN "none" ELSE LoadFailureToast(view)
    /\ UNCHANGED <<view, active, messages, sends, serverMsgs, now>>
    /\ UNCHANGED channelVars

\* --------------------------------------------------------------- sending
\* a request on its way to the backend.  kind "post" is awaited by
\* handleSendMessage, kind "emit" is fire-and-forget
Request(kind, conv, clientId, content) ==
    [kind |-> kind, conv |-> conv, cid |-> clientId, content |-> content,
     accepted |-> FALSE]

\* handleSendMessage returned before doing anything
SendIgnored ==
    /\ Quiet
    /\ UNCHANGED <<view, active, messages, isLoading, loads, sends, serverMsgs, now>>
    /\ UNCHANGED channelVars

\* a send that puts its temp entry in front of the transcript
OptimisticPostPrepending(input) ==
    /\ Len(messages) < MaxLen
    /\ Len(sends) < MaxSends
    /\ messages' = <<Optimistic(active, Trim(input), now, now)>> \o messages
    /\ sends' = Append(sends, Request("post", active, now, Trim(input)))
    /\ Quiet
    /\ UNCHANGED <<view, active, isLoading, loads, serverMsgs, now>>
    /\ UNCHANGED channelVars

\* Home and GroupChat: clientId = Date.now(), append the temp entry, POST
OptimisticPost(input) ==
    /\ Len(messages) < MaxLen
    /\ Len(sends) < MaxSends
    /\ messages' = Append(messages, Optimistic(active, Trim(input), now, now))
    /\ sends' = Append(sends, Request("post", active, now, Trim(input)))
    /\ Quiet
    /\ UNCHANGED <<view, active, isLoading, loads, serverMsgs, now>>
    /\ UNCHANGED channelVars

\* Home.handleSendMessage
HomeSendMessage(input) ==
    /\ view = "home"
    /\ input \in Inputs
    /\ IF active = None \/ Trim(input) = <<>>
         THEN SendIgnored
         ELSE OptimisticPost(input)

\* GroupChat.handleSendMessage
GroupSendMessage(input) ==
    /\ view = "group"
    /\ active # None
    /\ input \in Inputs
    /\ IF Trim(input) = <<>>
         THEN SendIgnored
         ELSE OptimisticPost(input)

\* an emit that hands the payload over whatever the connection state
emitUnchecked(connected, inFlight, request) ==
    Append(inFlight, request)

\* SocketService.emit: forward to the transport only while connected,
\* otherwise warn and drop.  The result is the requests now in flight.
emit(connected, inFlight, request) ==
    IF connected THEN Append(inFlight, request) ELSE inFlight

\* console output of SocketService.emit
emitLog(connected) ==
    IF connected THEN "none" ELSE "warn"

\* AnonymousChat.handleSendMessage: append the temp entry, then
\* socketService.emit with the same clientId
AnonymousSendMessage(input, connected) ==
    /\ view = "anon"
    /\ active # None
    /\ input \in Inputs
    /\ IF Trim(input) = <<>>
         THEN SendIgnored
         ELSE /\ Len(messages) < MaxLen
              /\ connected => Len(sends) < MaxSends
              /\ messages' = Append(messages, Optimistic(active, Trim(input), now, now))
              /\ sends' = emit(connected, sends, Request("emit", active, now, Trim(input)))
              /\ console' = emitLog(connected)
              /\ toast' = "none"
              /\ UNCHANGED <<view, active, isLoading, loads, serverMsgs, now>>
              /\ UNCHANGED channelVars

\* ChatWindow.handleSendMessage: emit without clientId, then append an
\* entry whose _id is the bare timestamp
ChatWindowSendMessage(input, connected) ==
    /\ view = "window"
    /\ active # None
    /\ input \in Inputs
    /\ IF Trim(input) = <<>>
         THEN SendIgnored
         ELSE /\ Len(messages) < MaxLen
              /\ connected => Len(sends) < MaxSends
              /\ sends' = emit(connected, sends, Request("emit", active, NoCid, Trim(input)))
              /\ messages' = Append(messages,
                     [id |-> LocalId(now), conv |-> active, content |-> Trim(input),
                      createdAt |-> <<"client", now>>])
              /\ console' = emitLog(connected)
              /\ toast' = "none"
              /\ UNCHANGED <<view, active, isLoading, loads, serverMsgs, now>>
              /\ UNCHANGED channelVars

\* the message the backend stores for an accepted request
Stored(p) ==
    [id |-> Len(serverMsgs) + 1, conv |-> p.conv, self |-> TRUE, cid |-> p.cid,
     content |-> p.content]

\* the backend stores the message of a request (and will broadcast it)
ServerAccept(i) ==
    /\ i \in 1..Len(sends)
    /\ sends[i].kind \in {"post", "emit"}
    /\ ~sends[i].accepted
    /\ Len(serverMsgs) < MaxServer
    /\ serverMsgs' = Append(serverMsgs, Stored(sends[i]))
    /\ sends' = IF sends[i].kind = "post"
                  THEN [sends EXCEPT ![i].accepted = TRUE]
                  ELSE RemoveAt(sends, i)
    /\ Quiet
    /\ UNCHANGED <<view, active, messages, isLoading, loads, now>>
    /\ UNCHANGED channelVars

\* an emission never reaches the backend, or the backend rejects it
EmitLost(i) ==
    /\ i \in 1..Len(sends)
    /\ sends[i].kind = "emit"
    /\ sends' = RemoveAt(sends, i)
    /\ Quiet
    /\ UNCHANGED <<view, active, messages, isLoading, loads, serverMsgs, now>>
    /\ UNCHANGED channelVars

\* the POST resolves: handleSendMessage returns, the echo does the rest
SendOk(i) ==
    /\ i \in 1..Len(sends)
    /\ sends[i].kind = "post"
    /\ sends[i].accepted
    /\ sends' = RemoveAt(sends, i)
    /\ Quiet
    /\ UNCHANGED <<view, active, messages, isLoading, loads, serverMsgs, now>>
    /\ UNCHANGED channelVars

\* the catch block of handleSendMessage
Rollback(prev, clientId) ==
    FilterOut(prev, TempId(clientId))

\* the POST rejects (on the way out, or its response is lost)
SendFail(i) ==
    /\ i \in 1..Len(sends)
    /\ sends[i].kind = "post"
    /\ messages' = Rollback(messages, sends[i].cid)
    /\ sends' = RemoveAt(sends, i)
    /\ toast' = "Failed to send message"
    /\ console' = "error"
    /\ UNCHANGED <<view, active, isLoading, loads, serverMsgs, now>>
    /\ UNCHANGED channelVars

\* a peer posts a message in one of the conversations
PeerMessage(c) ==
    /\ view \in TranscriptViews
    /\ c \in Convs
    /\ Len(serverMsgs) < MaxServer
    /\ serverMsgs' = Append(serverMsgs,
           [id |-> Len(serverMsgs) + 1, conv |-> c, self |-> FALSE, cid |-> NoCid,
            content |-> <<"h">>])
    /\ Quiet
    /\ UNCHANGED <<view, active, messages, isLoading, loads, sends, now>>
    /\ UNCHANGED channelVars

\* Home 'receive-message' listener, the branch for another conversation:
\* a peer's message raises the in-app notification
HomeNotification(selectedFriend, data) ==
    IF selectedFriend # targetId(data) /\ senderId(data) # Me
        THEN "New Message"
        ELSE "none"

\* the channel hands a stored message to the view's listener (first
\* delivery or redelivery)
DeliverEvent(k) ==
    /\ view \in TranscriptViews
    /\ view = "home" \/ active # None
    /\ k \in 1..Len(serverMsgs)
    /\ messages' = onRemoteEvent(view, active, messages, serverMsgs[k])
    /\ Len(messages') <= MaxLen
    /\ toast' = IF view = "home" THEN HomeNotification(active, serverMsgs[k]) ELSE "none"
    /\ console' = "none"
    /\ UNCHANGED <<view, active, isLoading, loads, sends, serverMsgs, now>>
    /\ UNCHANGED channelVars

\* a millisecond passes
Tick ==
    /\ view \in TranscriptViews
    /\ now < MaxClock
    /\ now' = now + 1
    /\ Quiet
    /\ UNCHANGED <<view, active, messages, isLoading, loads, sends, serverMsgs>>
    /\ UNCHANGED channelVars

\* ------------------------------------------------- SocketService actions
\* output of a service call, which never raises a toast
ServiceStep(log) ==
    /\ console' = log
    /\ toast' = "none"
    /\ invoked' = [event |-> "none", count |-> NoInvocation]
    /\ UNCHANGED <<view, active, messages, isLoading, loads, sends, serverMsgs, now, mounted, api>>

\* a socket io() returns with nothing re-registered on it
NewTransportWithoutListeners ==
    [state |-> "connecting", attached |-> [p \in Pairs |-> 0]]

\* the socket io() returns, with every registered listener attached once
NewTransport ==
    [state |-> "connecting",
     attached |-> [p \in Pairs |-> IF p \in listeners THEN 1 ELSE 0]]

\* connect without its `this.socket?.connected` early return
ConnectWhileConnected ==
    /\ ChannelInScope
    /\ IF ~token
         THEN /\ ServiceStep("No token available for socket connection")
              /\ UNCHANGED <<token, socket, transports, listeners>>
         ELSE /\ Len(transports) < MaxTransports
              /\ transports' = Append(transports, NewTransport)
              /\ socket' = Len(transports) + 1
              /\ ServiceStep("none")
              /\ UNCHANGED <<token, listeners>>

\* connect without its `!token` early return
ConnectWithoutCredential ==
    /\ ChannelInScope
    /\ IF IsConnected
         THEN /\ ServiceStep("Socket already connected")
              /\ UNCHANGED <<token, socket, transports, listeners>>
         ELSE /\ Len(transports) < MaxTransports
              /\ transports' = Append(transports, NewTransport)
              /\ socket' = Len(transports) + 1
              /\ ServiceStep("none")
              /\ UNCHANGED <<token, listeners>>

\* SocketService.connect
Connect ==
    /\ ChannelInScope
    /\ IF ~token
         THEN /\ ServiceStep("No token available for socket connection")
              /\ UNCHANGED <<token, socket, transports, listeners>>
         ELSE IF IsConnected
                THEN /\ ServiceStep("Socket already connected")
                     /\ UNCHANGED <<token, socket, transports, listeners>>
                ELSE /\ Len(transports) < MaxTransports
                     /\ transports' = Append(transports, NewTransport)
                     /\ socket' = Len(transports) + 1
                     /\ ServiceStep("none")
                     /\ UNCHANGED <<token, listeners>>

\* a disconnect that also empties the listener registry
DisconnectClearingRegistry ==
    /\ ChannelInScope
    /\ IF socket # 0
         THEN /\ transports' = [transports EXCEPT ![socket].state = "closed"]
              /\ socket' = 0
              /\ ServiceStep("Socket manually disconnected")
         ELSE /\ UNCHANGED <<socket, transports>>
              /\ ServiceStep("none")
    /\ listeners' = {}
    /\ UNCHANGED token

\* SocketService.disconnect
Disconnect ==
    /\ ChannelInScope
    /\ IF socket # 0
         THEN /\ transports' = [transports EXCEPT ![socket].state = "closed"]
              /\ socket' = 0
              /\ ServiceStep("Socket manually disconnected")
         ELSE /\ UNCHANGED <<socket, transports>>
              /\ ServiceStep("none")
    /\ UNCHANGED <<token, listeners>>

\* SocketService.on: add to the registry, attach to the current socket
On(p) ==
    /\ view = "channel"
    /\ p \in CallerPairs
    /\ listeners' = listeners \cup {p}
    /\ IF socket # 0
         THEN /\ transports[socket].attached[p] < MaxAttach
              /\ transports' = [transports EXCEPT ![socket].attached[p] = @ + 1]
         ELSE UNCHANGED transports
    /\ ServiceStep("none")
    /\ UNCHANGED <<token, socket>>

\* SocketService.off (the function on() returns): delete from the
\* registry, detach one attachment from the current socket
Off(p) ==
    /\ view = "channel"
    /\ p \in CallerPairs
    /\ listeners' = listeners \ {p}
    /\ IF socket # 0 /\ transports[socket].attached[p] > 0
         THEN transports' = [transports EXCEPT ![socket].attached[p] = @ - 1]
         ELSE UNCHANGED transports
    /\ ServiceStep("none")
    /\ UNCHANGED <<token, socket>>

\* localStorage.setItem('accessToken', ...) at login / register
StoreToken ==
    /\ ChannelInScope
    /\ ~token
    /\ token' = TRUE
    /\ ServiceStep("none")
    /\ UNCHANGED <<socket, transports, listeners>>

\* localStorage.removeItem('accessToken') at logout
RemoveToken ==
    /\ view = "channel"
    /\ token
    /\ token' = FALSE
    /\ ServiceStep("none")
    /\ UNCHANGED <<socket, transports, listeners>>

\* a transport finishes its handshake (first connection or reconnection)
TransportConnected(t) ==
    /\ ChannelInScope
    /\ t \in 1..Len(transports)
    /\ transports[t].state = "connecting"
    /\ transports' = [transports EXCEPT ![t].state = "connected"]
    /\ ServiceStep("Socket connected")
    /\ UNCHANGED <<token, socket, listeners>>

\* the network drops a transport; reconnection: true makes it retry
TransportDrop(t) ==
    /\ view = "channel"
    /\ t \in 1..Len(transports)
    /\ transports[t].state = "connected"
    /\ transports' = [transports EXCEPT ![t].state = "connecting"]
    /\ ServiceStep("Socket disconnected")
    /\ UNCHANGED <<token, socket, listeners>>

\* reconnectionAttempts are used up: the transport stays closed
TransportGiveUp(t) ==
    /\ view = "channel"
    /\ t \in 1..Len(transports)
    /\ transports[t].state = "connecting"
    /\ transports' = [transports EXCEPT ![t].state = "closed"]
    /\ ServiceStep("Socket connection error")
    /\ UNCHANGED <<token, socket, listeners>>

RECURSIVE SumAttached(_, _)
\* how often the callbacks attached under p run when every connected
\* transport among the first n receives one event
SumAttached(n, p) ==
    IF n = 0 THEN 0
    ELSE SumAttached(n - 1, p)
         + (IF transports[n].state = "connected" THEN transports[n].attached[p] ELSE 0)

\* invocations of cb caused by one backend event named e
Invocations(e, cb) ==
    SumAttached(Len(transports), <<e, cb>>)

\* the backend pushes one event to this client: every connected transport
\* receives it and runs what is attached to it
BackendEvent(e) ==
    /\ view = "channel"
    /\ e \in Events
    /\ \E t \in 1..Len(transports) : transports[t].state = "connected"
    /\ invoked' = [event |-> e, count |-> [cb \in Callbacks |-> Invocations(e, cb)]]
    /\ Quiet
    /\ UNCHANGED <<view, active, messages, isLoading, loads, sends, serverMsgs, now, mounted, api>>
    /\ UNCHANGED <<token, socket, transports, listeners>>

\* SocketService.emit called by an arbitrary caller
Emit ==
    /\ view = "channel"
    /\ IsConnected => Len(sends) < MaxSends
    /\ sends' = emit(IsConnected, sends, Request("service", None, NoCid, <<"h">>))
    /\ console' = emitLog(IsConnected)
    /\ toast' = "none"
    /\ invoked' = [event |-> "none", count |-> NoInvocation]
    /\ UNCHANGED <<view, active, messages, isLoading, loads, serverMsgs, now, mounted, api>>
    /\ UNCHANGED <<token, socket, transports, listeners>>

\* an emission that is not a chat message leaves the wire and no reply
\* comes back for it (the backend consumed it, or it was lost)
EmitSettled(i) ==
    /\ i \in 1..Len(sends)
    /\ sends[i].kind \in {"service", "join", "create"}
    /\ sends' = RemoveAt(sends, i)
    /\ Quiet
    /\ invoked' = [event |-> "none", count |-> NoInvocation]
    /\ UNCHANGED <<view, active, messages, isLoading, loads, serverMsgs, now, mounted, api>>
    /\ UNCHANGED <<token, socket, transports, listeners>>

\* ------------------------------------------- listeners the views register
\* SocketService.on for each pair of S: into the registry, and onto the
\* current socket if there is one
Subscribe(S) ==
    /\ listeners' = listeners \cup S
    /\ transports' =
         IF socket # 0
           THEN [transports EXCEPT ![socket].attached =
                    [p \in Pairs |-> IF p \in S THEN @[p] + 1 ELSE @[p]]]
           ELSE transports

\* the unsubscribe functions of the pairs of S: out of the registry, and
\* one attachment of each off the current socket
Unsubscribe(S) ==
    /\ listeners' = listeners \ S
    /\ transports' =
         IF socket # 0
           THEN [transports EXCEPT ![socket].attached =
                    [p \in Pairs |-> IF p \in S /\ @[p] > 0 THEN @[p] - 1 ELSE @[p]]]
           ELSE transports

\* the current socket can take one more attachment of each pair of S
CanAttach(S) ==
    socket # 0 => \A p \in S : transports[socket].attached[p] < MaxAttach

\* some transport that receives events carries the callback of p
Listening(p) ==
    \E t \in 1..Len(transports) :
        transports[t].state = "connected" /\ transports[t].attached[p] > 0

\* what a lobby step leaves alone
LobbyFrame ==
    /\ invoked' = [event |-> "none", count |-> NoInvocation]
    /\ UNCHANGED <<view, messages, isLoading, loads, serverMsgs, now, token, socket, api>>

\* Home mounts: the mount effect registers its six listeners
HomeMount ==
    /\ view = "lobby"
    /\ ~mounted
    /\ CanAttach(MountPairs)
    /\ mounted' = TRUE
    /\ Subscribe(MountPairs)
    /\ Quiet
    /\ LobbyFrame
    /\ UNCHANGED <<active, sends>>

\* Home unmounts (logout navigates away): the cleanup of the mount effect
\* calls its six unsubscribe functions; the component state is discarded
HomeUnmount ==
    /\ view = "lobby"
    /\ mounted
    /\ mounted' = FALSE
    /\ active' = None
    /\ Unsubscribe(MountPairs)
    /\ Quiet
    /\ LobbyFrame
    /\ UNCHANGED sends

\* Home.handleJoinAnonymousRoom: emit the join, then register a one-shot
\* listener for the answer.  Every call creates a new closure; a behaviour
\* follows one of them at a time.
JoinAnonymousRoom(roomId) ==
    /\ view = "lobby"
    /\ mounted
    /\ roomId \in Convs
    /\ JoinPair \notin listeners
    /\ CanAttach({JoinPair})
    /\ IsConnected => Len(sends) < MaxSends
    /\ sends' = emit(IsConnected, sends, Request("join", roomId, NoCid, <<>>))
    /\ Subscribe({JoinPair})
    /\ console' = emitLog(IsConnected)
    /\ toast' = "none"
    /\ LobbyFrame
    /\ UNCHANGED <<active, mounted>>

\* 'joined-anonymous-room' arrives: the one-shot listener opens the room
\* and unsubscribes itself
JoinedAnonymousRoom(i) ==
    /\ view = "lobby"
    /\ i \in 1..Len(sends)
    /\ sends[i].kind = "join"
    /\ Listening(JoinPair)
    /\ active' = IF mounted THEN sends[i].conv ELSE active
    /\ sends' = RemoveAt(sends, i)
    /\ Unsubscribe({JoinPair})
    /\ toast' = "Joined"
    /\ console' = "none"
    /\ LobbyFrame
    /\ UNCHANGED mounted

\* CreateAnonymousRoomModal.handleCreateRoom: validate, emit the creation,
\* then register the one-shot listeners for 'room-created' and 'error'
handleCreateRoom(roomName, hasTags) ==
    /\ view = "lobby"
    /\ mounted
    /\ roomName \in Inputs
    /\ IF Trim(roomName) = <<>> \/ ~hasTags
         THEN /\ toast' = IF Trim(roomName) = <<>> THEN "Please enter a room name"
                          ELSE "Please add at least one tag"
              /\ console' = "none"
              /\ UNCHANGED <<sends, listeners, transports>>
         ELSE /\ RoomCreatedPair \notin listeners
              /\ ErrorPair \notin listeners
              /\ CanAttach({RoomCreatedPair, ErrorPair})
              /\ IsConnected => Len(sends) < MaxSends
              /\ sends' = emit(IsConnected, sends,
                               Request("create", None, NoCid, Trim(roomName)))
              /\ Subscribe({RoomCreatedPair, ErrorPair})
              /\ console' = emitLog(IsConnected)
              /\ toast' = "none"
    /\ LobbyFrame
    /\ UNCHANGED <<active, mounted>>

\* 'room-created' arrives: the listener reports success, closes the modal
\* and unsubscribes itself (the 'error' listener stays)
RoomCreated(i) ==
    /\ view = "lobby"
    /\ i \in 1..Len(sends)
    /\ sends[i].kind = "create"
    /\ Listening(RoomCreatedPair)
    /\ sends' = RemoveAt(sends, i)
    /\ Unsubscribe({RoomCreatedPair})
    /\ toast' = "Room created"
    /\ console' = "none"
    /\ LobbyFrame
    /\ UNCHANGED <<active, mounted>>

\* 'error' arrives for a refused creation or join: the modal's listener
\* reports it and unsubscribes itself (the 'room-created' listener stays)
RoomError(i) ==
    /\ view = "lobby"
    /\ i \in 1..Len(sends)
    /\ sends[i].kind \in {"create", "join"}
    /\ Listening(ErrorPair)
    /\ sends' = RemoveAt(sends, i)
    /\ Unsubscribe({ErrorPair})
    /\ toast' = "Failed to create room"
    /\ console' = "none"
    /\ LobbyFrame
    /\ UNCHANGED <<active, mounted>>

\* -------------------------------------------- gateway response interceptor
\* HTTP statuses a request is answered with
Statuses == {200, 401, 500}

\* no request issued yet, nothing in localStorage, the app is shown
NoRequest ==
    [phase |-> "idle", retry |-> FALSE, issued |-> 0, refreshes |-> 0,
     refreshToken |-> FALSE, user |-> FALSE, location |-> "app"]

\* what a gateway step leaves alone
ApiFrame ==
    /\ Quiet
    /\ UNCHANGED <<view, active, messages, isLoading, loads, sends, serverMsgs, now>>
    /\ UNCHANGED <<socket, transports, listeners, invoked, mounted>>

\* login / register store accessToken, refreshToken and user
StoreSession ==
    /\ view = "api"
    /\ ~api.user
    /\ token' = TRUE
    /\ api' = [api EXCEPT !.refreshToken = TRUE, !.user = TRUE, !.location = "app"]
    /\ ApiFrame

\* a caller issues a request through the api instance; its config has no
\* _retry mark yet
ApiRequest ==
    /\ view = "api"
    /\ api.phase \in {"idle", "resolved", "rejected"}
    /\ api' = [api EXCEPT !.phase = "sent", !.retry = FALSE, !.issued = 1,
                          !.refreshes = 0]
    /\ ApiFrame
    /\ UNCHANGED token

\* an interceptor that retries whether or not the request is marked
InterceptorAlwaysRetrying(status) ==
    /\ view = "api"
    /\ status \in Statuses
    /\ api.phase \in {"sent", "retried"}
    /\ IF status = 200
         THEN api' = [api EXCEPT !.phase = "resolved"]
         ELSE IF status = 401 /\ api.refreshToken
                THEN /\ api.issued < MaxIssued
                     /\ api' = [api EXCEPT !.phase = "refreshing", !.retry = TRUE,
                                           !.refreshes = @ + 1]
                ELSE api' = [api EXCEPT !.phase = "rejected",
                                        !.retry = (@ \/ status = 401)]
    /\ ApiFrame
    /\ UNCHANGED token

\* the response of the request (first issue or retry) passes the response
\* interceptor: 2xx resolves; a 401 of an unmarked request marks it and,
\* if a refreshToken is stored, posts the refresh; anything else rejects
ResponseInterceptor(status) ==
    /\ view = "api"
    /\ status \in Statuses
    /\ api.phase \in {"sent", "retried"}
    /\ IF status = 200
         THEN api' = [api EXCEPT !.phase = "resolved"]
         ELSE IF status = 401 /\ ~api.retry
                THEN IF api.refreshToken
                       THEN /\ api.issued < MaxIssued
                            /\ api' = [api EXCEPT !.phase = "refreshing", !.retry = TRUE,
                                                  !.refreshes = @ + 1]
                       ELSE api' = [api EXCEPT !.phase = "rejected", !.retry = TRUE]
                ELSE api' = [api EXCEPT !.phase = "rejected"]
    /\ ApiFrame
    /\ UNCHANGED token

\* the refresh POST settles: on success the new accessToken is stored and
\* the original request is issued again; on failure the three storage
\* entries are removed, the page goes to /login and the error is rejected
RefreshSettled(ok) ==
    /\ view = "api"
    /\ api.phase = "refreshing"
    /\ IF ok
         THEN /\ token' = TRUE
              /\ api' = [api EXCEPT !.phase = "retried", !.issued = @ + 1]
         ELSE /\ token' = FALSE
              /\ api' = [api EXCEPT !.phase = "rejected", !.refreshToken = FALSE,
                                    !.user = FALSE, !.location = "/login"]
    /\ ApiFrame

\* ------------------------------------------------------------ the system
Init ==
    /\ view \in TranscriptViews \cup {"channel", "lobby", "api"}
    /\ active = None
    /\ messages = <<>>
    /\ isLoading = FALSE
    /\ loads = <<>>
    /\ sends = <<>>
    /\ serverMsgs = <<>>
    /\ now = 1
    /\ toast = "none"
    /\ console = "none"
    /\ token = FALSE
    /\ socket = 0
    /\ transports = <<>>
    /\ listeners = {}
    /\ invoked = [event |-> "none", count |-> NoInvocation]
    /\ mounted = FALSE
    /\ api = NoRequest

Next ==
    \/ \E c \in Convs \cup {None} : SelectFriend(c)
    \/ \E c \in Convs : Mount(c)
    \/ \E c \in Convs : ChangeConversation(c)
    \/ Unmount
    \/ \E i \in 1..MaxLoads : HistoryResolved(i)
    \/ \E i \in 1..MaxLoads : HistoryFailed(i)
    \/ \E i \in 1..MaxLoads, ok \in BOOLEAN : MarkReadSettled(i, ok)
    \/ \E input \in Inputs : HomeSendMessage(input)
    \/ \E input \in Inputs : GroupSendMessage(input)
    \/ \E input \in Inputs, connected \in BOOLEAN : AnonymousSendMessage(input, connected)
    \/ \E input \in Inputs, connected \in BOOLEAN : ChatWindowSendMessage(input, connected)
    \/ \E i \in 1..MaxSends : ServerAccept(i)
    \/ \E i \in 1..MaxSends : EmitLost(i)
    \/ \E i \in 1..MaxSends : SendOk(i)
    \/ \E i \in 1..MaxSends : SendFail(i)
    \/ \E c \in Convs : PeerMessage(c)
    \/ \E k \in 1..MaxServer : DeliverEvent(k)
    \/ Tick
    \/ Connect
    \/ Disconnect
    \/ \E p \in CallerPairs : On(p)
    \/ \E p \in CallerPairs : Off(p)
    \/ StoreToken
    \/ RemoveToken
    \/ \E t \in 1..MaxTransports : TransportConnected(t)
    \/ \E t \in 1..MaxTransports : TransportDrop(t)
    \/ \E t \in 1..MaxTransports : TransportGiveUp(t)
    \/ \E e \in Events : BackendEvent(e)
    \/ Emit
    \/ \E i \in 1..MaxSends : EmitSettled(i)
    \/ HomeMount
    \/ HomeUnmount
    \/ \E roomId \in Convs : JoinAnonymousRoom(roomId)
    \/ \E i \in 1..MaxSends : JoinedAnonymousRoom(i)
    \/ \E roomName \in Inputs, hasTags \in BOOLEAN : handleCreateRoom(roomName, hasTags)
    \/ \E i \in 1..MaxSends : RoomCreated(i)
    \/ \E i \in 1..MaxSends : RoomError(i)
    \/ StoreSession
    \/ ApiRequest
    \/ \E status \in Statuses : ResponseInterceptor(status)
    \/ \E ok \in BOOLEAN : RefreshSettled(ok)

Spec ==
    Init /\ [][Next]_vars

\* --------------------------------------- the transcript views, fairly run
\* the views that send optimistically
LiveInit ==
    Init /\ view \in ReconcilingViews

\* the log bound leaves room for the message of one more send
RoomInLog ==
    Len(serverMsgs) + Len(sends) < MaxServer

\* the steps of Home, GroupChat and AnonymousChat; sends and peer
\* messages are followed while the log can still store what is in flight,
\* and no emission handed to a connected transport is lost
LiveNext ==
    \/ \E c \in Convs \cup {None} : SelectFriend(c)
    \/ \E c \in Convs : Mount(c)
    \/ \E c \in Convs : ChangeConversation(c)
    \/ Unmount
    \/ \E i \in 1..MaxLoads : HistoryResolved(i)
    \/ \E i \in 1..MaxLoads : HistoryFailed(i)
    \/ \E i \in 1..MaxLoads, ok \in BOOLEAN : MarkReadSettled(i, ok)
    \/ \E input \in Inputs : RoomInLog /\ HomeSendMessage(input)
    \/ \E input \in Inputs : RoomInLog /\ GroupSendMessage(input)
    \/ \E input \in Inputs, connected \in BOOLEAN :
           RoomInLog /\ AnonymousSendMessage(input, connected)
    \/ \E i \in 1..MaxSends : ServerAccept(i)
    \/ \E i \in 1..MaxSends : SendOk(i)
    \/ \E i \in 1..MaxSends : SendFail(i)
    \/ \E c \in Convs : RoomInLog /\ PeerMessage(c)
    \/ \E k \in 1..MaxServer : DeliverEvent(k)
    \/ Tick

\* gateway responses and channel events are delivered: a request in
\* flight is eventually stored, a POST eventually gets its response, a
\* load eventually settles, and a stored message's event eventually
\* reaches the listener
FairDelivery ==
    /\ WF_vars(\E i \in 1..MaxSends : ServerAccept(i))
    /\ WF_vars(\E i \in 1..MaxSends : SendOk(i) \/ SendFail(i))
    /\ WF_vars(\E i \in 1..MaxLoads :
                  HistoryResolved(i) \/ \E ok \in BOOLEAN : MarkReadSettled(i, ok))
    /\ \A k \in 1..MaxServer : WF_vars(DeliverEvent(k))

LiveSpec ==
    LiveInit /\ [][LiveNext]_vars /\ FairDelivery

\* =================================================================== claims
\* one step in which some handleSendMessage appended its optimistic entry
SendLocalStep ==
    \E input \in Inputs :
        /\ Trim(input) # <<>>
        /\ active # None
        /\ view \in ReconcilingViews
        /\ \/ HomeSendMessage(input)
           \/ GroupSendMessage(input)
           \/ \E connected \in BOOLEAN : AnonymousSendMessage(input, connected)

\* C1 (as claimed): a sendLocal with non-empty content appends exactly one
\* entry, at the end, whose id is the temp-prefixed clientId; and when an
\* event of the active conversation carrying a clientId is delivered while
\* an optimistic entry of that clientId is in the transcript, the length is
\* unchanged, every slot that held that clientId carries the event's
\* server id, and no entry with that clientId remains.
OptimisticRoundTrip ==
    [][/\ SendLocalStep =>
            /\ Len(messages') = Len(messages) + 1
            /\ SubSeq(messages', 1, Len(messages)) = messages
            /\ messages'[Len(messages')].id = TempId(now)
       /\ \A k \in 1..Len(serverMsgs) :
            ( /\ DeliverEvent(k)
              /\ view \in ReconcilingViews
              /\ serverMsgs[k].conv = active
              /\ serverMsgs[k].cid # NoCid
              /\ SomeId(messages, TempId(serverMsgs[k].cid)) )
            => /\ Len(messages') = Len(messages)
               /\ \A i \in 1..Len(messages) :
                      messages[i].id = TempId(serverMsgs[k].cid)
                          => messages'[i].id = ServerId(serverMsgs[k].id)
               /\ ~SomeId(messages', TempId(serverMsgs[k].cid))]_vars

\* C2 (as claimed): in every reachable state and for every event the
\* active conversation's listener consumes, handling the event twice
\* leaves exactly one entry with its server id and the second handling
\* changes nothing.
IdempotentRemoteDelivery ==
    view \in TranscriptViews =>
        \A k \in 1..Len(serverMsgs) :
            EventConv(view, serverMsgs[k]) = active =>
                LET once == onRemoteEvent(view, active, messages, serverMsgs[k])
                    twice == onRemoteEvent(view, active, once, serverMsgs[k])
                IN  /\ twice = once
                    /\ CountId(once, ServerId(serverMsgs[k].id)) = 1

\* the server ids present in a transcript
ConfirmedIds(prev) ==
    {prev[i].id : i \in {j \in 1..Len(prev) : prev[j].id[1] = "srv"}}

\* C3 (as claimed): when the gateway send of a sendLocal fails (the POST
\* rejects; for an anonymous room, the emission is dropped) the transcript
\* afterwards has no entry with that send's clientId, the failure is
\* reported to the user, and the step adds no confirmed entry.
RollbackOnFailure ==
    [][/\ \A i \in 1..Len(sends) :
            SendFail(i) =>
                /\ ~SomeId(messages', TempId(sends[i].cid))
                /\ toast' = "Failed to send message"
                /\ ConfirmedIds(messages') = ConfirmedIds(messages)
       /\ \A input \in Inputs :
            (Trim(input) # <<>> /\ AnonymousSendMessage(input, FALSE)) =>
                /\ ~SomeId(messages', TempId(now))
                /\ toast' = "Failed to send message"
                /\ ConfirmedIds(messages') = ConfirmedIds(messages)]_vars

\* C4 (as claimed): the resolution of a history load requested for a
\* conversation that is no longer the active one writes nothing into the
\* transcript: every entry present afterwards was present before.
StaleLoadDiscarded ==
    [][\A i \in 1..Len(loads) :
           (HistoryResolved(i) /\ active \in Convs /\ loads[i].conv # active) =>
               \A j \in 1..Len(messages') :
                   \E h \in 1..Len(messages) : messages[h] = messages'[j]]_vars

\* C5 (as claimed): once the service's transport is connected, a backend
\* event invokes a registered callback (one that no transport carries
\* twice) exactly once.
ListenerSurvivesReconnect ==
    (invoked.event # "none" /\ IsConnected) =>
        \A cb \in Callbacks :
            ( /\ <<invoked.event, cb>> \in listeners
              /\ \A t \in 1..Len(transports) :
                     transports[t].attached[<<invoked.event, cb>>] <= 1 )
            => invoked.count[cb] = 1

\* C6: an event of a conversation other than the active one leaves the
\* transcript unchanged, in every view, also for the echo of a send made
\* before the user switched away.
CrossConversationIsolation ==
    [][\A k \in 1..Len(serverMsgs) :
           (DeliverEvent(k) /\ serverMsgs[k].conv # active) => messages' = messages]_vars

\* C6 witness: Home has just handled a peer's message of another
\* conversation (the notification is up) while the transcript of the
\* selected friend holds an entry
IsolationWitness ==
    /\ view = "home"
    /\ active \in Convs
    /\ toast = "New Message"
    /\ messages # <<>>
    /\ \A i \in 1..Len(messages) : messages[i].conv = active

\* C7 (as claimed): no two entries of a transcript share a server id (in
\* the views that deduplicate: Home, GroupChat, AnonymousChat).
UniqueServerIds ==
    view \in ReconcilingViews =>
        \A i, j \in 1..Len(messages) :
            (i # j /\ messages[i].id[1] = "srv") => messages[i].id # messages[j].id

\* C8 (as claimed): at most one transcript entry carries a given
\* client-correlation id.
UniqueCorrelationIds ==
    \A i, j \in 1..Len(messages) :
        (i # j /\ messages[i].id[1] = "temp") => messages[i].id # messages[j].id

\* C9 (as claimed): every entry of the transcript belongs to the active
\* conversation.
TranscriptScopedToActive ==
    \A i \in 1..Len(messages) : messages[i].conv = active

\* C10 (as claimed): when the history request fails the transcript is
\* empty afterwards, the failure is shown to the user, and no new request
\* is issued.
HistoryFailureEmptiesTranscript ==
    [][\A i \in 1..Len(loads) :
           HistoryFailed(i) =>
               /\ messages' = <<>>
               /\ toast' # "none"
               /\ Len(loads') = Len(loads) - 1]_vars

\* C11: disconnect() leaves the listener registry as it was, whether or
\* not a transport existed.
DisconnectKeepsRegistry ==
    [][Disconnect => listeners' = listeners]_vars

\* C11 witness: the transport has just been torn down by disconnect() and
\* both callbacks are still registered
DisconnectKeepsRegistryWitness ==
    /\ console = "Socket manually disconnected"
    /\ socket = 0
    /\ transports # <<>>
    /\ listeners = CallerPairs

\* C12: whenever connect() creates a transport, the new transport carries
\* every pair of the registry exactly once and nothing else.
ConnectReattachesRegistry ==
    [][Len(transports') > Len(transports) =>
           \A p \in Pairs :
               transports'[Len(transports')].attached[p]
                   = IF p \in listeners THEN 1 ELSE 0]_vars

\* C12 witness: a second transport was created after the first one was
\* closed, and it carries both registered callbacks once
ConnectReattachesWitness ==
    /\ Len(transports) = 2
    /\ socket = 2
    /\ transports[1].state = "closed"
    /\ transports[2].state = "connecting"
    /\ view = "channel"
    /\ listeners = CallerPairs
    /\ \A p \in CallerPairs : transports[2].attached[p] = 1

\* C13: connect() while the transport is connected creates no transport,
\* attaches nothing and leaves registry and transport unchanged.
ConnectIdempotentWhileConnected ==
    [][(Connect /\ IsConnected) => UNCHANGED <<socket, transports, listeners>>]_vars

\* C13 witness: connect() has just returned early on a connected
\* transport that carries a listener
ConnectIdempotentWitness ==
    /\ console = "Socket already connected"
    /\ IsConnected
    /\ listeners # {}

\* C14: connect() without a stored credential creates no transport and
\* leaves the registry unchanged, only logging a warning; connect() with a
\* credential and no connected transport creates one.
ConnectRefusedWithoutCredential ==
    [][/\ (Connect /\ ~token) =>
            /\ UNCHANGED <<socket, transports, listeners>>
            /\ console' = "No token available for socket connection"
       /\ (Connect /\ token /\ ~IsConnected) =>
            /\ Len(transports') = Len(transports) + 1
            /\ socket' = Len(transports')
            /\ listeners' = listeners]_vars

\* C14 witness: connect() has just been refused while a callback is in
\* the registry and no transport exists
ConnectRefusedWitness ==
    /\ console = "No token available for socket connection"
    /\ ~token
    /\ socket = 0
    /\ transports = <<>>
    /\ listeners # {}

\* C15 (as claimed): after the unsubscribe function of a pair has run, the
\* pair is not in the registry and no transport that can still deliver
\* events carries its callback.
UnsubscribeDetaches ==
    [][\A p \in Pairs :
           Off(p) =>
               /\ p \notin listeners'
               /\ \A t \in 1..Len(transports') :
                      transports'[t].state # "closed" => transports'[t].attached[p] = 0]_vars

\* C16 (as claimed): with two callbacks registered under one event name,
\* a delivered event of that name invokes each of them exactly once.
EachCallbackOncePerEvent ==
    ( /\ invoked.event # "none"
      /\ \A cb \in Callbacks : <<invoked.event, cb>> \in listeners )
    => \A cb \in Callbacks : invoked.count[cb] = 1

\* C19 (as claimed): on() of a pair that is already registered changes
\* neither the registry nor any transport, and the unsubscribe function of
\* a pair that is no longer registered changes nothing either.
RegistrationIdempotent ==
    [][\A p \in Pairs :
           /\ (On(p) /\ p \in listeners) => UNCHANGED <<listeners, transports>>
           /\ (Off(p) /\ p \notin listeners) => UNCHANGED <<listeners, transports>>]_vars

\* C17: emit forwards the payload only while the transport is connected;
\* otherwise the payload is dropped with a warning and nothing is queued:
\* an emission enters the wire only in the step of an emit made while
\* connected, never in a later step.
EmitOnlyWhenConnected ==
    [][/\ (Emit /\ IsConnected) => Len(sends') = Len(sends) + 1
       /\ (Emit /\ ~IsConnected) =>
            /\ UNCHANGED <<sends, transports, socket>>
            /\ console' = "warn"
       /\ (view = "channel" /\ Len(sends') > Len(sends)) => (Emit /\ IsConnected)
       /\ \A input \in Inputs :
            AnonymousSendMessage(input, FALSE) => sends' = sends]_vars

\* C17 witness: an emit has just been dropped on a transport that is
\* still connecting, with nothing in flight
EmitDroppedWitness ==
    /\ view = "channel"
    /\ console = "warn"
    /\ socket # 0
    /\ transports[socket].state = "connecting"
    /\ sends = <<>>

\* C18 (as claimed): after Home is unmounted none of the listeners it or
\* its room-creation modal registered is in the registry or on a
\* transport that can still deliver events.
TeardownRemovesListeners ==
    [][HomeUnmount =>
           \A p \in ViewPairs :
               /\ p \notin listeners'
               /\ \A t \in 1..Len(transports') :
                      transports'[t].state # "closed" => transports'[t].attached[p] = 0]_vars

\* C20 (as claimed): a confirmed entry of the active conversation stays in
\* the transcript in every step that keeps the active conversation.
ConfirmedPersists ==
    [][(view \in TranscriptViews /\ active \in Convs /\ active' = active) =>
           \A i \in 1..Len(messages) :
               (messages[i].id[1] = "srv" /\ messages[i].conv = active)
                   => SomeId(messages', messages[i].id)]_vars

\* every character of s is a blank
AllSpaces(s) ==
    \A i \in 1..Len(s) : s[i] = " "

\* t is s without its leading and trailing blanks, and is not empty
IsTrimOf(t, s) ==
    /\ t # <<>>
    /\ t[1] # " "
    /\ t[Len(t)] # " "
    /\ \E a, b \in 1..Len(s) :
           /\ t = SubSeq(s, a, b)
           /\ AllSpaces(SubSeq(s, 1, a - 1))
           /\ AllSpaces(SubSeq(s, b + 1, Len(s)))

\* one call of handleSendMessage with the given text, in Home, GroupChat
\* or AnonymousChat
SendStep(input) ==
    \/ HomeSendMessage(input)
    \/ GroupSendMessage(input)
    \/ \E connected \in BOOLEAN : AnonymousSendMessage(input, connected)

\* C22: a send whose text is empty or blank changes neither the
\* transcript nor the requests in flight; any other send appends an entry
\* whose text is the trimmed input, and what it puts in flight carries the
\* trimmed input too.
TrimmedOrIgnored ==
    [][\A input \in Inputs :
           (SendStep(input) /\ active # None) =>
               IF AllSpaces(input)
                 THEN UNCHANGED <<messages, sends>>
                 ELSE /\ Len(messages') = Len(messages) + 1
                      /\ IsTrimOf(messages'[Len(messages')].content, input)
                      /\ Len(sends') > Len(sends) =>
                             IsTrimOf(sends'[Len(sends')].content, input)]_vars

\* C22 witness: a send has appended its entry and put its request in
\* flight, both with the text "h"
TrimmedWitness ==
    /\ view \in ReconcilingViews
    /\ messages # <<>>
    /\ messages[Len(messages)].id[1] = "temp"
    /\ messages[Len(messages)].content = <<"h">>
    /\ sends # <<>>
    /\ sends[Len(sends)].content = <<"h">>
    /\ sends[Len(sends)].cid = messages[Len(messages)].id[2]

\* C23: when a delivered event of the active conversation carries the
\* clientId of an optimistic entry, the length is unchanged, one slot that
\* held that clientId now carries the event's server id and timestamp,
\* and every other slot is as it was.
ReconcileInPlace ==
    [][\A k \in 1..Len(serverMsgs) :
           ( /\ DeliverEvent(k)
             /\ view \in ReconcilingViews
             /\ EventConv(view, serverMsgs[k]) = active
             /\ serverMsgs[k].cid # NoCid
             /\ SomeId(messages, TempId(serverMsgs[k].cid)) )
           => /\ Len(messages') = Len(messages)
              /\ \E ti \in 1..Len(messages) :
                     /\ messages[ti].id = TempId(serverMsgs[k].cid)
                     /\ messages'[ti].id = ServerId(serverMsgs[k].id)
                     /\ messages'[ti].createdAt = <<"server", serverMsgs[k].id>>
                     /\ \A i \in 1..Len(messages) : i # ti => messages'[i] = messages[i]]_vars

\* C23 witness: in AnonymousChat, which never removes an entry, the first
\* slot holds the confirmed form of the user's own message and an
\* optimistic entry follows it
ReconcileInPlaceWitness ==
    /\ view = "anon"
    /\ Len(messages) >= 2
    /\ serverMsgs # <<>>
    /\ serverMsgs[1].cid # NoCid
    /\ messages[1] = Confirmed(serverMsgs[1])
    /\ messages[2].id[1] = "temp"

\* C24 (as claimed): for an event of the active conversation that matches
\* no optimistic entry, the view's handler returns the transcript
\* unchanged if the event's server id is present, and the transcript with
\* the confirmed entry appended otherwise.
DedupOrAppendReference ==
    (view \in TranscriptViews /\ active # None) =>
        \A k \in 1..Len(serverMsgs) :
            ( /\ EventConv(view, serverMsgs[k]) = active
              /\ ~(serverMsgs[k].cid # NoCid
                     /\ SomeId(messages, TempId(serverMsgs[k].cid))) )
            => onRemoteEvent(view, active, messages, serverMsgs[k])
                 = IF SomeId(messages, ServerId(serverMsgs[k].id))
                     THEN messages
                     ELSE Append(messages, Confirmed(serverMsgs[k]))

RECURSIVE IsSubseq(_, _)
\* short is long with some entries left out
IsSubseq(short, long) ==
    IF short = <<>> THEN TRUE
    ELSE IF long = <<>> THEN FALSE
    ELSE IF Head(short) = Head(long) THEN IsSubseq(Tail(short), Tail(long))
    ELSE IsSubseq(short, Tail(long))

\* no entry changed its position relative to another: slots are kept (an
\* optimistic entry may turn into a confirmed one in its slot) and
\* additions come after them, or entries were only taken out
KeepsOrder(old, new) ==
    IF Len(new) >= Len(old)
      THEN \A i \in 1..Len(old) :
               \/ new[i] = old[i]
               \/ old[i].id[1] = "temp" /\ new[i].id[1] = "srv"
      ELSE IsSubseq(new, old)

\* C25: a send, a reconciliation, a rollback or the handling of a remote
\* event never reorders the entries of the transcript, and adds new
\* entries only at the end.
OrderPreserved ==
    [][( /\ active' = active
         /\ \/ \E input \in Inputs :
                  SendStep(input) \/ \E connected \in BOOLEAN : ChatWindowSendMessage(input, connected)
            \/ \E i \in 1..Len(sends) : SendFail(i)
            \/ \E k \in 1..Len(serverMsgs) : DeliverEvent(k) )
       => KeepsOrder(messages, messages')]_vars

\* C25 witness: a confirmed entry, reconciled or received, sits in front
\* of a later optimistic entry in Home
OrderPreservedWitness ==
    /\ view = "home"
    /\ Len(messages) >= 2
    /\ messages[1].id[1] = "srv"
    /\ messages[2].id[1] = "temp"
    /\ \A i \in 1..Len(messages) : messages[i].conv = active

\* C26 (as claimed): a failed mark-as-read request leaves the transcript
\* as it was and raises no user-visible error.
MarkReadFailureOnlyLogged ==
    [][\A i \in 1..Len(loads) :
           MarkReadSettled(i, FALSE) =>
               /\ messages' = messages
               /\ toast' = "none"
               /\ console' = "error"]_vars

\* the transports that can still deliver events and carry a callback
LiveTransports ==
    {t \in 1..Len(transports) :
        /\ transports[t].state # "closed"
        /\ \E p \in Pairs : transports[t].attached[p] > 0}

\* C27 (as claimed): at most one transport that is not closed carries
\* callbacks of the registry.
SingleLiveTransport ==
    Cardinality(LiveTransports) <= 1

\* C28 (as claimed): the rollback of a failed send takes out at most the
\* one entry that send appended and leaves every other entry in place.
RollbackRemovesOwnEntryOnly ==
    [][\A i \in 1..Len(sends) :
           SendFail(i) =>
               \/ messages' = messages
               \/ \E j \in 1..Len(messages) :
                      /\ messages[j].id = TempId(sends[i].cid)
                      /\ messages' = RemoveAt(messages, j)]_vars

\* C29 (as claimed): in Home, after every step the loading flag is up if
\* a load of the selected friend's history is in flight, and the step in
\* which the last such load resolves or fails leaves the flag down.
LoadingFlagTracksActiveLoad ==
    [][view = "home" =>
         /\ (active' \in Convs /\ \E i \in 1..Len(loads') : loads'[i].conv = active')
                => isLoading'
         /\ \A i \in 1..Len(loads) :
                ( /\ HistoryFailed(i) \/ \E ok \in BOOLEAN : MarkReadSettled(i, ok)
                  /\ loads[i].conv = active
                  /\ \A j \in 1..Len(loads) : j # i => loads[j].conv # active )
                => ~isLoading']_vars

\* C30: a request is on the wire at most twice and causes at most one
\* refresh; a 401 for a request already marked as retried is rejected
\* without another issue; a failed refresh rejects the request and leaves
\* no accessToken, refreshToken or user in storage.
RetryAtMostOnce ==
    [][view = "api" =>
         /\ api'.issued <= 2
         /\ api'.refreshes <= 1
         /\ (ResponseInterceptor(401) /\ api.retry) =>
                (api'.phase = "rejected" /\ api'.issued = api.issued)
         /\ RefreshSettled(FALSE) =>
                /\ api'.phase = "rejected"
                /\ api'.issued = api.issued
                /\ ~token' /\ ~api'.refreshToken /\ ~api'.user]_vars

\* C30 witness: the retried request was answered with an error again and
\* has been rejected after one refresh and two issues
RetryAtMostOnceWitness ==
    /\ view = "api"
    /\ api.phase = "rejected"
    /\ api.retry
    /\ api.issued = 2
    /\ api.refreshes = 1
    /\ api.refreshToken

\* C21 (as claimed): under fair delivery of responses and events, an
\* optimistic entry that is in the transcript is eventually no longer in
\* it (replaced by the confirmed message or removed).
OptimisticEventuallyDestroyed ==
    \A c \in 1..MaxClock :
        SomeId(messages, TempId(c)) ~> ~SomeId(messages, TempId(c))

====
